---- MODULE Spec2Model ----
(***************************************************************************)
(* State-machine model of the DESI catalog loader (DESIDataAccess).        *)
(* Two versions of the loader exist in the repository:                     *)
(*   "old" : src/desi_data_access.py      (file-backed FastSpecFit query)  *)
(*   "new" : src/src/desi_data_access.py  (query_all_tracers, synthetic)   *)
(* Every public method is one action; the catalog files it downloads and   *)
(* the random draw of np.random.choice are inputs of the action.           *)
(***************************************************************************)
EXTENDS Integers, Sequences, FiniteSets, TLC

VARIABLES call, source, outcome, error, table, parts, locals, rng

vars == <<call, source, outcome, error, table, parts, locals, rng>>

(* ------------------------------ bounds -------------------------------- *)

\* rows in one LSS clustering file read by a direct query_galaxies call
MaxRows == 2
\* largest max_galaxies argument
MaxGalaxies == 2
\* rows in one tracer's file read by query_all_tracers
MaxTracerRows == 1
\* rows in one FastSpecFit healpix file
MaxHealpixRows == 1
\* rows in one LSS clustering file of the subsampling runs
MaxSampleRows == 3

(* ------------------------- float64 arithmetic ------------------------- *)

\* a float64 is finite, NaN or +infinity
Fin(n) == [cls |-> "fin", val |-> n]
NaN == [cls |-> "nan", val |-> 0]
PosInf == [cls |-> "inf", val |-> 0]

isfinite(x) == x.cls = "fin"

\* numpy's <= : every comparison with NaN is False
le(a, b) ==
    /\ a.cls # "nan"
    /\ b.cls # "nan"
    /\ \/ b.cls = "inf"
       \/ a.cls = "fin" /\ b.cls = "fin" /\ a.val <= b.val

\* numpy's >=
ge(a, b) == le(b, a)

(* --------------------------- python values ---------------------------- *)

\* Optional[tuple]: None, or a pair (lo, hi)
None == [given |-> FALSE, lo |-> NaN, hi |-> NaN]
Pair(lo, hi) == [given |-> TRUE, lo |-> lo, hi |-> hi]

\* truth value of "if z_range": None is falsy, a 2-tuple is truthy whatever it holds
Truthy(range) == range.given

\* .astype(np.int64) of the FITS TARGETID column, which is stored as a 64-bit
\* integer (format K): every stored value is its own int64 value
AsInt64(n) == n

\* .astype(np.float64) of a float column keeps its class and value
AsFloat64(x) == IF x.cls = "fin" THEN Fin(x.val) ELSE [cls |-> x.cls, val |-> 0]

(* --------------------------- the LSS files ---------------------------- *)

\* raw rows of a clustering catalog; a file exposes the columns its schema names
LssRow(id, alt_id, ra, dec, z, z_not4clus, redshift, w1, w2, w3) ==
    [TARGETID |-> id, TARGET_ID |-> alt_id, RA |-> ra, DEC |-> dec,
     Z |-> z, Z_not4clus |-> z_not4clus, REDSHIFT |-> redshift,
     WEIGHT_SYSTOT |-> w1, WEIGHT |-> w2, WEIGHT_ZFAIL |-> w3]

RowLow == LssRow(1, 11, Fin(10), Fin(0), Fin(1), Fin(2), Fin(3), Fin(1), Fin(2), Fin(3))
RowHigh == LssRow(2, 12, Fin(20), Fin(4), Fin(2), Fin(3), Fin(1), Fin(1), Fin(2), Fin(3))
RowOut == LssRow(1, 11, Fin(30), Fin(0), Fin(3), Fin(1), Fin(2), Fin(2), Fin(3), Fin(1))
\* a row without a measured redshift: NaN in Z and REDSHIFT, +inf in Z_not4clus
RowBad == LssRow(3, 13, Fin(10), Fin(5), NaN, PosInf, NaN, Fin(1), Fin(2), Fin(3))

RowPool == {RowLow, RowHigh, RowOut, RowBad}

\* column sets (data.dtype.names) of the files
ClusteringCols == {"TARGETID", "RA", "DEC", "Z", "WEIGHT", "WEIGHT_ZFAIL"}
FullCols == {"TARGETID", "RA", "DEC", "Z_not4clus", "WEIGHT_SYSTOT"}
LegacyCols == {"TARGET_ID", "RA", "DEC", "REDSHIFT"}
AllCols ==
    {"TARGETID", "TARGET_ID", "RA", "DEC", "Z", "Z_not4clus", "REDSHIFT",
     "WEIGHT_SYSTOT", "WEIGHT", "WEIGHT_ZFAIL"}
NoSkyCols == {"TARGETID", "Z_not4clus", "REDSHIFT"}
SkyOnlyCols == {"RA", "DEC"}

Schemas == {ClusteringCols, FullCols, LegacyCols, AllCols, NoSkyCols, SkyOnlyCols}

SeqsUpTo(S, n) == UNION { [1..k -> S] : k \in 0..n }

\* a file that cannot be downloaded (urlretrieve raises)
Unavailable == [status |-> "unavailable", names |-> {}, rows |-> <<>>]

\* a downloaded FITS table: hdul[1].data
FitsTable(names, rows) == [status |-> "ok", names |-> names, rows |-> rows]

LssFiles ==
    {Unavailable} \cup
    { FitsTable(names, rows) : names \in Schemas, rows \in SeqsUpTo(RowPool, MaxRows) }

\* clustering files large enough for a subsample of two or more rows
SampleFiles ==
    { FitsTable(ClusteringCols, rows) : rows \in [1..MaxSampleRows -> RowPool] }

(* ----------------------------- arguments ------------------------------ *)

Versions == {"old", "new"}
MaxGalaxiesVals == -1..MaxGalaxies
RaRanges == {None, Pair(Fin(10), Fin(20))}
DecRanges == {None, Pair(Fin(0), Fin(4))}
ZRanges == {None, Pair(Fin(1), Fin(2)), Pair(Fin(1), PosInf)}

(* -------------------------- query_galaxies ---------------------------- *)

\* mutant of in_range: the upper bound is not tested
in_range_no_upper(v, range) == ge(v, range.lo)

\* (col >= range[0]) & (col <= range[1]) for one row
in_range(v, range) == ge(v, range.lo) /\ le(v, range.hi)

\* mutant of z_filter_column: the elif branch for Z_not4clus is missing
z_filter_column_Z_only(version, names, z_range) ==
    IF Truthy(z_range) /\ "Z" \in names THEN "Z" ELSE ""

\* mutant of z_filter_column: the new loader has no elif branch
z_filter_column_new_Z_only(version, names, z_range) ==
    IF Truthy(z_range) /\ "Z" \in names THEN "Z"
    ELSE IF version = "old" /\ "Z_not4clus" \in names THEN "Z_not4clus"
    ELSE ""

\* the redshift column the mask is computed on (the if / elif of the redshift
\* cut), "" when the cut is skipped
z_filter_column(version, names, z_range) ==
    IF Truthy(z_range) /\ "Z" \in names THEN "Z"
    ELSE IF (version = "new" => Truthy(z_range)) /\ "Z_not4clus" \in names
         THEN "Z_not4clus"
         ELSE ""

\* the old loader's elif branch subscripts z_range without testing it
z_subscript_fails(version, names, z_range) ==
    /\ z_filter_column(version, names, z_range) = "Z_not4clus"
    /\ ~ z_range.given

\* mask[i] after the redshift, RA and DEC cuts
mask(version, data, ra_range, dec_range, z_range, i) ==
    LET zc == z_filter_column(version, data.names, z_range)
        row == data.rows[i]
    IN  /\ zc # "" => in_range(row[zc], z_range)
        /\ (Truthy(ra_range) /\ "RA" \in data.names) => in_range(row["RA"], ra_range)
        /\ (Truthy(dec_range) /\ "DEC" \in data.names) => in_range(row["DEC"], dec_range)

RECURSIVE true_indices(_, _, _, _, _, _)
\* the row numbers kept by data[mask], in file order, among rows 1..n
true_indices(version, data, ra_range, dec_range, z_range, n) ==
    IF n = 0 THEN <<>>
    ELSE LET rest == true_indices(version, data, ra_range, dec_range, z_range, n - 1)
         IN  IF mask(version, data, ra_range, dec_range, z_range, n)
             THEN Append(rest, n) ELSE rest

\* mutant of filtered_data: the mask is not applied
filtered_data_unmasked(version, data, ra_range, dec_range, z_range) ==
    [i \in 1..Len(data.rows) |-> i]

\* filtered_data = data[mask], as row numbers of the file
filtered_data(version, data, ra_range, dec_range, z_range) ==
    true_indices(version, data, ra_range, dec_range, z_range, Len(data.rows))

\* mutant of must_sample: the subsampling branch is never taken
never_sample(n_filtered, max_galaxies) == FALSE

\* the subsampling branch is taken
must_sample(n_filtered, max_galaxies) == n_filtered > max_galaxies

\* mutant of choice: replace=True, a position can be drawn twice
choice_with_replacement(n, k) == [1..k -> 1..n]

\* the results np.random.choice(n, k, replace=False) can give: k distinct
\* positions of 1..n in any order
choice(n, k) ==
    { d \in [1..k -> 1..n] : \A i, j \in 1..k : i # j => d[i] # d[j] }

\* filtered_data[indices]
take(filtered, indices) == [i \in 1..Len(indices) |-> filtered[indices[i]]]

\* column_map: canonical name -> candidate source columns in priority order
column_map ==
    [TARGETID |-> <<"TARGETID", "TARGET_ID">>,
     RA |-> <<"RA">>,
     DEC |-> <<"DEC">>,
     Z |-> <<"Z", "Z_not4clus", "REDSHIFT">>,
     WEIGHT |-> <<"WEIGHT_SYSTOT", "WEIGHT", "WEIGHT_ZFAIL">>]

StdNames == {"TARGETID", "RA", "DEC", "Z", "WEIGHT"}

\* positions of the candidates of std_name that the file has
present(std_name, names) ==
    { k \in 1..Len(column_map[std_name]) : column_map[std_name][k] \in names }

\* mutant of first_present: the loop has no break, the last candidate wins
last_present(std_name, names) ==
    LET ks == present(std_name, names)
    IN  column_map[std_name][CHOOSE k \in ks : \A m \in ks : k >= m]

\* the inner for loop with break: the first candidate that is present
first_present(std_name, names) ==
    LET ks == present(std_name, names)
    IN  column_map[std_name][CHOOSE k \in ks : \A m \in ks : k <= m]

\* keys of df_dict after the mapping loop
mapped_names(names) == { s \in StdNames : present(s, names) # {} }

\* the new loader's "ensure consistent data types" casts
coerce(version, std_name, v) ==
    IF version = "old" THEN v
    ELSE IF std_name = "TARGETID" THEN AsInt64(v)
    ELSE IF std_name \in {"Z", "RA", "DEC"} THEN AsFloat64(v)
    ELSE v

\* one row of df
df_row(version, data, tracer_type, region, i) ==
    [c \in mapped_names(data.names) \cup {"SPECTYPE", "REGION"} |->
        IF c = "SPECTYPE" THEN tracer_type
        ELSE IF c = "REGION" THEN region
        ELSE coerce(version, c, data.rows[i][first_present(c, data.names)])]

\* pd.DataFrame(df_dict)
DataFrame(columns, rows) == [columns |-> columns, rows |-> rows]

NoTable == DataFrame({}, <<>>)

Returned(df, idx) == [outcome |-> "returned", error |-> "none", table |-> df, picked |-> idx]
Raised(e) == [outcome |-> "raised", error |-> e, table |-> NoTable, picked |-> <<>>]

\* what the call did with one source file: how reading it ended and the file
\* rows it took
Part(r) == [outcome |-> r.outcome, error |-> r.error, picked |-> r.picked]

\* mutant of download_lss_file: the failure of urlretrieve is swallowed
download_never_fails(file) == "none"

\* download_lss_file: any failure of urlretrieve is re-raised as RuntimeError
download_lss_file(file) == IF file.status = "unavailable" THEN "RuntimeError" ELSE "none"

\* the draws the call can make: one when no sampling takes place
draws(version, max_galaxies, file, ra_range, dec_range, z_range) ==
    IF file.status # "ok" \/ z_subscript_fails(version, file.names, z_range)
    THEN {<<>>}
    ELSE LET n == Len(filtered_data(version, file, ra_range, dec_range, z_range))
         IN  IF must_sample(n, max_galaxies) /\ max_galaxies >= 0
             THEN choice(n, max_galaxies) ELSE {<<>>}

\* query_galaxies(max_galaxies, tracer_type, region, ra_range, dec_range, z_range)
\* reading `file` and drawing `indices`
query_galaxies(version, max_galaxies, tracer_type, region, ra_range, dec_range, z_range, file, indices) ==
    IF download_lss_file(file) # "none" THEN Raised(download_lss_file(file))
    ELSE IF z_subscript_fails(version, file.names, z_range) THEN Raised("TypeError")
    ELSE LET filtered == filtered_data(version, file, ra_range, dec_range, z_range)
             sampled == must_sample(Len(filtered), max_galaxies)
         IN  IF sampled /\ max_galaxies < 0 THEN Raised("ValueError")
             ELSE LET idx == IF sampled THEN take(filtered, indices) ELSE filtered
                  IN  Returned(
                        DataFrame(mapped_names(file.names) \cup {"SPECTYPE", "REGION"},
                                  [k \in 1..Len(idx) |->
                                     df_row(version, file, tracer_type, region, idx[k])]),
                        idx)

(* ------------------- numpy's process-wide generator -------------------- *)

\* what the model keeps of the state of np.random (MT19937): whether
\* np.random.seed was called and with what, and whether values were drawn
\* since. A generator that was never seeded starts from the entropy of the
\* operating system
Entropy == [seeded |-> FALSE, seed |-> 0, advanced |-> FALSE]

\* mutant of np_random_seed: the generator is not reseeded
seed_ignored(state, seed) == state

\* np.random.seed(seed)
np_random_seed(state, seed) == [seeded |-> TRUE, seed |-> seed, advanced |-> FALSE]

\* the state after a request that consumes values of the stream
np_random_draw(state) ==
    IF state.seeded THEN [state EXCEPT !.advanced = TRUE] ELSE state

\* item k of the request-th request of `size` values made since the generator
\* was in `state`: the stream is a function of the state, so two samples with
\* the same description out of a freshly seeded state are the same number
sample(state, request, size, k) ==
    [state |-> state, request |-> request, size |-> size, item |-> k]

\* the generator after the np.random.choice of query_galaxies (line 182), which
\* shuffles arange(n): one draw for each position but the last
rng_after_choice(state, version, max_galaxies, file, ra_range, dec_range, z_range) ==
    IF file.status # "ok" \/ z_subscript_fails(version, file.names, z_range)
    THEN state
    ELSE LET n == Len(filtered_data(version, file, ra_range, dec_range, z_range))
         IN  IF must_sample(n, max_galaxies) /\ max_galaxies >= 0 /\ n >= 2
             THEN np_random_draw(state) ELSE state

(* ------------------------- query_all_tracers -------------------------- *)

tracer_types == <<"LRG", "ELG_LOPnotqso", "QSO">>

\* mutant of galaxies_per_tracer: every tracer gets the whole budget
galaxies_per_tracer_whole(max_galaxies) == max_galaxies

galaxies_per_tracer(max_galaxies) == max_galaxies \div Len(tracer_types)

\* mutant of except_Exception: "except RuntimeError"
except_RuntimeError(e) == e = "RuntimeError"

\* mutant of except_Exception: no handler at all
except_nothing(e) == FALSE

\* "except Exception": the error classes the handler catches
except_Exception(e) == e \in {"RuntimeError", "TypeError", "ValueError", "OSError", "KeyError"}

\* one row of pd.concat's result: a column its frame lacks is filled with NaN
reindexed(row, columns) == [c \in columns |-> IF c \in DOMAIN row THEN row[c] ELSE NaN]

RECURSIVE concat_rows(_, _)
concat_rows(frames, columns) ==
    IF frames = <<>> THEN <<>>
    ELSE [k \in 1..Len(Head(frames).rows) |-> reindexed(Head(frames).rows[k], columns)]
         \o concat_rows(Tail(frames), columns)

\* pd.concat(frames, ignore_index=True)
concat(frames) ==
    LET columns == UNION { frames[k].columns : k \in 1..Len(frames) }
    IN  DataFrame(columns, concat_rows(frames, columns))

\* mutant of tracer_query: every iteration reads the first tracer's file
tracer_query_first(max_galaxies, region, ra_range, dec_range, files, indices, k) ==
    query_galaxies("new", galaxies_per_tracer(max_galaxies), tracer_types[k], region,
                   ra_range, dec_range, None, files[1], indices[1])

\* the query_galaxies call of loop iteration k
tracer_query(max_galaxies, region, ra_range, dec_range, files, indices, k) ==
    query_galaxies("new", galaxies_per_tracer(max_galaxies), tracer_types[k], region,
                   ra_range, dec_range, None, files[k], indices[k])

\* query_all_tracers(max_galaxies, region, ra_range, dec_range) reading files[k]
\* for tracer_types[k]; the result and what each iteration did
query_all_tracers(max_galaxies, region, ra_range, dec_range, files, indices) ==
    LET got == [k \in 1..Len(tracer_types) |->
                  tracer_query(max_galaxies, region, ra_range, dec_range, files, indices, k)]
        escaped == { k \in 1..Len(tracer_types) :
                       got[k].outcome = "raised" /\ ~ except_Exception(got[k].error) }
        loaded == SelectSeq(got, LAMBDA g : g.outcome = "returned")
        all_galaxies == [k \in 1..Len(loaded) |-> loaded[k].table]
    IN  [result |->
            IF escaped # {}
            THEN Raised(got[CHOOSE k \in escaped : \A m \in escaped : k <= m].error)
            ELSE IF all_galaxies = <<>> THEN Raised("RuntimeError")
            ELSE Returned(concat(all_galaxies), <<>>),
         parts |-> [k \in 1..Len(tracer_types) |-> Part(got[k])]]

RECURSIVE rng_after_tracers(_, _, _, _, _, _)
\* the generator after the first k query_galaxies calls of query_all_tracers
rng_after_tracers(state, max_galaxies, ra_range, dec_range, files, k) ==
    IF k = 0 THEN state
    ELSE rng_after_choice(
           rng_after_tracers(state, max_galaxies, ra_range, dec_range, files, k - 1),
           "new", galaxies_per_tracer(max_galaxies), files[k], ra_range, dec_range, None)

TracerRowPool == {RowHigh, RowOut}
\* the three tracers' files of one data release have the same columns
TracerSchemas == {ClusteringCols, LegacyCols}

TracerFiles(names) ==
    {Unavailable} \cup
    { FitsTable(names, rows) : rows \in SeqsUpTo(TracerRowPool, MaxTracerRows) }

AllTracersMaxVals == -1..(MaxGalaxies + 2)

(* --------------- query_fastspecfit_data (file-backed) ----------------- *)

EmissionRow(id, ha, ha_ivar, oii, oii_ivar, sfr_ha, sfr_oii, mass) ==
    [TARGETID |-> id, HALPHA_FLUX |-> ha, HALPHA_FLUX_IVAR |-> ha_ivar,
     OII_3727_FLUX |-> oii, OII_3727_FLUX_IVAR |-> oii_ivar,
     SFR_HALPHA |-> sfr_ha, SFR_OII |-> sfr_oii, STELLAR_MASS |-> mass]

EmissionPool ==
    { EmissionRow(1, Fin(4), Fin(1), Fin(2), Fin(4), Fin(1), Fin(1), Fin(5)),
      EmissionRow(2, Fin(1), Fin(4), Fin(0), Fin(1), Fin(2), Fin(1), Fin(6)),
      EmissionRow(3, NaN, Fin(1), Fin(3), PosInf, Fin(1), Fin(2), Fin(7)) }

EmissionSchemas ==
    { {"TARGETID", "HALPHA_FLUX", "HALPHA_FLUX_IVAR", "OII_3727_FLUX",
       "OII_3727_FLUX_IVAR", "SFR_HALPHA", "SFR_OII", "STELLAR_MASS"},
      {"TARGETID", "HALPHA_FLUX", "OII_3727_FLUX_IVAR", "STELLAR_MASS"} }

\* a downloaded file that fits.open cannot read
Unreadable == [status |-> "unreadable", names |-> {}, rows |-> <<>>]

HealpixFiles(names) ==
    {Unavailable, Unreadable} \cup
    { FitsTable(names, rows) : rows \in SeqsUpTo(EmissionPool, MaxHealpixRows) }

TargetIdArrays == {<<>>, <<1>>, <<2, 1>>}
EmissionLineLists == {<<"HALPHA">>, <<"OII_3727">>, <<"HALPHA", "OII_3727">>}

\* range(min(3, 12))
healpix_range == 1..3

\* f"{line}_FLUX" and f"{line}_FLUX_IVAR"
flux_col(line) == line \o "_FLUX"
ivar_col(line) == line \o "_FLUX_IVAR"

sfr_cols == {"SFR_HALPHA", "SFR_OII", "STELLAR_MASS"}

\* np.isin(x, targetids)
isin(x, targetids) == \E k \in 1..Len(targetids) : targetids[k] = x

\* the body of the try block for one healpix file: the error it raises
\* (download_fastspecfit_file re-raises as RuntimeError, fits.open raises OSError)
healpix_error(file) ==
    IF file.status = "unavailable" THEN "RuntimeError"
    ELSE IF file.status = "unreadable" THEN "OSError"
    ELSE "none"

RECURSIVE matched_indices(_, _, _)
\* data[mask] with mask = np.isin(data['TARGETID'], targetids), among rows 1..n
matched_indices(file, targetids, n) ==
    IF n = 0 THEN <<>>
    ELSE LET rest == matched_indices(file, targetids, n - 1)
         IN  IF isin(file.rows[n]["TARGETID"], targetids) THEN Append(rest, n) ELSE rest

\* what one loop iteration appends to all_data (nothing for a skipped file)
matched_data(file, targetids) ==
    IF healpix_error(file) # "none" THEN <<>>
    ELSE LET idx == matched_indices(file, targetids, Len(file.rows))
         IN  [k \in 1..Len(idx) |-> file.rows[idx[k]]]

RECURSIVE concatenate(_, _, _)
\* np.concatenate(all_data) over files 1..n
concatenate(files, targetids, n) ==
    IF n = 0 THEN <<>>
    ELSE concatenate(files, targetids, n - 1) \o matched_data(files[n], targetids)

\* the columns of the empty DataFrame returned when all_data is empty
expected_columns(emission_lines) ==
    {"TARGETID"} \cup { flux_col(emission_lines[k]) : k \in 1..Len(emission_lines) }
                 \cup { ivar_col(emission_lines[k]) : k \in 1..Len(emission_lines) }
                 \cup sfr_cols

\* the keys of df_dict: TARGETID and the requested columns the files have
emission_columns(emission_lines, names) ==
    {"TARGETID"} \cup ((expected_columns(emission_lines)) \cap names)

\* query_fastspecfit_data(targetids, emission_lines) of the old loader reading
\* files[h] for healpix h
query_fastspecfit_files(targetids, emission_lines, files) ==
    LET escaped == { h \in healpix_range :
                       healpix_error(files[h]) # "none"
                       /\ ~ except_Exception(healpix_error(files[h])) }
        combined_data == concatenate(files, targetids, Len(files))
        names == UNION { files[h].names : h \in healpix_range }
        columns == emission_columns(emission_lines, names)
    IN  [result |->
            IF escaped # {}
            THEN Raised(healpix_error(files[CHOOSE h \in escaped : \A m \in escaped : h <= m]))
            ELSE IF combined_data = <<>>
            THEN Returned(DataFrame(expected_columns(emission_lines), <<>>), <<>>)
            ELSE Returned(DataFrame(columns,
                            [k \in 1..Len(combined_data) |->
                               [c \in columns |-> combined_data[k][c]]]), <<>>),
         parts |-> [h \in healpix_range |->
                      [outcome |-> IF healpix_error(files[h]) = "none"
                                   THEN "returned" ELSE "raised",
                       error |-> healpix_error(files[h]),
                       picked |-> IF healpix_error(files[h]) = "none"
                                  THEN matched_indices(files[h], targetids, Len(files[h].rows))
                                  ELSE <<>>]]]

(* ----------------- query_fastspecfit_data (synthetic) ----------------- *)

\* one draw of the generator: the values it gives one galaxy
SyntheticRow(ha, ha_ivar, oii, oii_ivar, sfr, sfr_ivar, mass) ==
    [HALPHA_FLUX |-> ha, HALPHA_FLUX_IVAR |-> ha_ivar,
     OII_3727_FLUX |-> oii, OII_3727_FLUX_IVAR |-> oii_ivar,
     SFR |-> sfr, SFR_IVAR |-> sfr_ivar, STELLAR_MASS |-> mass]

\* 10**normal is positive and finite; the inverse variance grows with the flux
SyntheticFaint == SyntheticRow(Fin(2), Fin(1), Fin(1), Fin(1), Fin(1), Fin(9), Fin(5))
SyntheticBright == SyntheticRow(Fin(8), Fin(4), Fin(2), Fin(4), Fin(4), Fin(1), Fin(6))

SyntheticPool == {SyntheticFaint, SyntheticBright}

\* the keys of df_dict of the synthetic query
synthetic_columns(emission_lines) ==
    {"TARGETID", "SFR", "SFR_IVAR", "STELLAR_MASS"}
      \cup (IF isin("HALPHA", emission_lines)
            THEN {"HALPHA_FLUX", "HALPHA_FLUX_IVAR"} ELSE {})
      \cup (IF isin("OII_3727", emission_lines)
            THEN {"OII_3727_FLUX", "OII_3727_FLUX_IVAR"} ELSE {})

\* mutant of query_fastspecfit_synthetic: the TARGETID column is filled from
\* the end of targetids
query_fastspecfit_reversed(targetids, emission_lines, generated) ==
    LET columns == synthetic_columns(emission_lines)
    IN  Returned(DataFrame(columns,
                   [k \in 1..Len(targetids) |->
                      [c \in columns |->
                         IF c = "TARGETID"
                         THEN AsInt64(targetids[Len(targetids) + 1 - k])
                         ELSE generated[k][c]]]), <<>>)

\* query_fastspecfit_data(targetids, emission_lines) of the new loader, the
\* generator giving generated[k] for targetids[k]
query_fastspecfit_synthetic(targetids, emission_lines, generated) ==
    LET columns == synthetic_columns(emission_lines)
    IN  Returned(DataFrame(columns,
                   [k \in 1..Len(targetids) |->
                      [c \in columns |->
                         IF c = "TARGETID" THEN AsInt64(targetids[k])
                         ELSE generated[k][c]]]), <<>>)

\* the emission_lines arguments of the synthetic query
SyntheticLineLists == EmissionLineLists \cup {<<"HBETA">>}

\* a value computed from samples of the stream by the formula of a column
derived(column, samples) == [column |-> column, samples |-> samples]

\* the values lines 341-391 compute for row k of n out of a generator in
\* `state`: the requests are numbered in the order the code makes them
\* (np.random.normal, exponential, uniform, lognormal), which depends on the
\* emission lines asked for
synthetic_draws(state, n, emission_lines) ==
    LET ha == isin("HALPHA", emission_lines)
        oii == isin("OII_3727", emission_lines)
        h == IF ha THEN 2 ELSE 0
        o == IF oii THEN 2 ELSE 0
        ha_flux(k) == <<sample(state, 1, n, k)>>
        oii_flux(k) == IF ha THEN ha_flux(k) \o <<sample(state, h + 1, n, k)>>
                       ELSE <<sample(state, 1, n, k)>>
        sfr(k) == IF ha THEN ha_flux(k) \o <<sample(state, h + o + 1, n, k)>>
                  ELSE <<sample(state, h + o + 1, n, k)>>
    IN  [k \in 1..n |->
           SyntheticRow(derived("HALPHA_FLUX", ha_flux(k)),
                        derived("HALPHA_FLUX_IVAR", ha_flux(k) \o <<sample(state, 2, 1, 1)>>),
                        derived("OII_3727_FLUX", oii_flux(k)),
                        derived("OII_3727_FLUX_IVAR",
                                oii_flux(k) \o <<sample(state, h + 2, 1, 1)>>),
                        derived("SFR", sfr(k)),
                        derived("SFR_IVAR", sfr(k)),
                        derived("STELLAR_MASS", <<sample(state, h + o + 2, n, k)>>))]

\* the generator after the synthetic query_fastspecfit_data: reseeded with 42
\* (line 335), then advanced by the requests; requests of size 0 consume
\* nothing, the scalar np.random.exponential of a line does
rng_after_synthetic(state, n, emission_lines) ==
    IF n > 0 \/ isin("HALPHA", emission_lines) \/ isin("OII_3727", emission_lines)
    THEN np_random_draw(np_random_seed(state, 42))
    ELSE np_random_seed(state, 42)

\* the synthetic query_fastspecfit_data called with the generator in `state`
query_fastspecfit_seeded(state, targetids, emission_lines) ==
    query_fastspecfit_synthetic(targetids, emission_lines,
        synthetic_draws(np_random_seed(state, 42), Len(targetids), emission_lines))

(* ------------------------- get_quality_sample ------------------------- *)

NegInf == [cls |-> "neginf", val |-> 0]

\* sign of a float that is not NaN
sign(x) ==
    IF x.cls = "inf" THEN 1
    ELSE IF x.cls = "neginf" THEN -1
    ELSE IF x.val > 0 THEN 1
    ELSE IF x.val < 0 THEN -1
    ELSE 0

\* np.sqrt: NaN for a negative argument; the finite values of the model are
\* perfect squares
sqrt(x) ==
    IF x.cls = "inf" THEN PosInf
    ELSE IF x.cls # "fin" \/ x.val < 0 THEN NaN
    ELSE Fin(CHOOSE r \in 0..x.val : r * r = x.val)

\* float64 product: inf * 0 is NaN
mul(a, b) ==
    IF a.cls = "nan" \/ b.cls = "nan" THEN NaN
    ELSE IF a.cls = "fin" /\ b.cls = "fin" THEN Fin(a.val * b.val)
    ELSE IF sign(a) * sign(b) = 0 THEN NaN
    ELSE IF sign(a) * sign(b) > 0 THEN PosInf
    ELSE NegInf

\* numpy's > : False when either side is NaN
gt(a, b) ==
    /\ a.cls \notin {"nan", "neginf"}
    /\ b.cls # "nan"
    /\ (b.cls = "neginf" \/ ~ le(a, b))

\* mutant of quality_mask: the flux > 0 test is missing
quality_mask_any_flux(row, emission_line, min_snr) ==
    LET flux == row[flux_col(emission_line)]
        ivar == row[ivar_col(emission_line)]
    IN  /\ gt(mul(flux, sqrt(ivar)), min_snr)
        /\ gt(ivar, Fin(0))
        /\ isfinite(flux)
        /\ isfinite(ivar)

\* quality_mask for one row of emission_data
quality_mask(row, emission_line, min_snr) ==
    LET flux == row[flux_col(emission_line)]
        ivar == row[ivar_col(emission_line)]
        snr == mul(flux, sqrt(ivar))
    IN  /\ gt(snr, min_snr)
        /\ gt(flux, Fin(0))
        /\ gt(ivar, Fin(0))
        /\ isfinite(flux)
        /\ isfinite(ivar)

\* mutant of clean_rows: the mask is not applied
clean_rows_unfiltered(emission_data, emission_line, min_snr) == emission_data

\* emission_data[quality_mask].copy()
clean_rows(emission_data, emission_line, min_snr) ==
    DataFrame(emission_data.columns,
              SelectSeq(emission_data.rows,
                        LAMBDA row : quality_mask(row, emission_line, min_snr)))

\* the new loader rebuilds a frame with native types: TARGETID as int64, the
\* other numeric columns as float64, SPECTYPE and REGION (objects) as they are
native(df) ==
    DataFrame(df.columns,
              [k \in 1..Len(df.rows) |->
                 [c \in df.columns |->
                    IF c = "TARGETID" THEN AsInt64(df.rows[k][c])
                    ELSE IF c \in {"SPECTYPE", "REGION"} THEN df.rows[k][c]
                    ELSE AsFloat64(df.rows[k][c])]])

\* one row of the merge: the columns of the left row, then those of the right
joined(left_row, right_row) ==
    [c \in DOMAIN left_row \cup DOMAIN right_row |->
        IF c \in DOMAIN left_row THEN left_row[c] ELSE right_row[c]]

\* mutant of matching: every right row matches (a cross join)
matching_all(left_row, right) == right.rows

\* the right rows with the TARGETID of the left row, in the order of right
matching(left_row, right) ==
    SelectSeq(right.rows, LAMBDA row : row["TARGETID"] = left_row["TARGETID"])

RECURSIVE merge_rows(_, _)
merge_rows(left_rows, right) ==
    IF left_rows = <<>> THEN <<>>
    ELSE LET m == matching(Head(left_rows), right)
         IN  [k \in 1..Len(m) |-> joined(Head(left_rows), m[k])]
             \o merge_rows(Tail(left_rows), right)

\* left.merge(right, on='TARGETID', how='inner'); TARGETID is the only column
\* the two frames share
merge(left, right) ==
    DataFrame(left.columns \cup right.columns, merge_rows(left.rows, right))

\* mutant of assign_targetid: the assignment writes other values
assign_targetid_shifted(df) ==
    DataFrame(df.columns,
              [k \in 1..Len(df.rows) |->
                 [df.rows[k] EXCEPT !["TARGETID"] = df.rows[k]["TARGETID"] + 1]])

\* df['TARGETID'] = df['TARGETID'].astype(np.int64): assigns the column of the
\* frame in place
assign_targetid(df) ==
    DataFrame(df.columns,
              [k \in 1..Len(df.rows) |->
                 [df.rows[k] EXCEPT !["TARGETID"] = AsInt64(df.rows[k]["TARGETID"])]])

\* the frames get_quality_sample holds: galaxies and emission_data as the
\* queries returned them and as they are when the call ends, clean_emission,
\* the names of the frames a column was assigned to in place, and the return
\* statement the call left by
Frames(galaxies, galaxies_end, emission_data, emission_end, clean_emission, assigned, exit) ==
    [galaxies |-> galaxies, galaxies_end |-> galaxies_end,
     emission_data |-> emission_data, emission_end |-> emission_end,
     clean_emission |-> clean_emission, assigned |-> assigned, exit |-> exit]

NoFrames == Frames(NoTable, NoTable, NoTable, NoTable, NoTable, {}, "none")

\* mutant of without_join_key: the missing column is an error
raise_missing_key(galaxies) == Raised("KeyError")

\* "return galaxies" when the galaxy table has no TARGETID column
without_join_key(galaxies) == Returned(galaxies, <<>>)

\* mutant of without_emission: the empty emission table is an error
raise_without_emission(emission_data) == Raised("ValueError")

\* "return pd.DataFrame()" when the emission table has no rows
without_emission(emission_data) == Returned(DataFrame({}, <<>>), <<>>)

\* mutant of without_flux_columns: the missing column is an error
raise_without_flux_columns(galaxies, emission_data) == Raised("KeyError")

\* "return galaxies.merge(emission_data, on='TARGETID', how='inner')" when the
\* emission table lacks the flux or the inverse variance column of the line
without_flux_columns(galaxies, emission_data) ==
    Returned(merge(galaxies, emission_data), <<>>)

\* z_range default of query_galaxies: (0.0, 1.5) in the old loader, which
\* admits the integer redshifts 0 and 1 of the model; None in the new one
default_z_range(version) == IF version = "old" THEN Pair(Fin(0), Fin(1)) ELSE None

\* the query_galaxies call of get_quality_sample
quality_galaxies(version, max_galaxies, file, indices) ==
    query_galaxies(version, max_galaxies, "ELG_LOPnotqso", "NGC", None, None, default_z_range(version), file, indices)

\* the query_fastspecfit_data call of get_quality_sample
quality_emission(version, targetids, emission_line, healpix_files, generated) ==
    IF version = "new"
    THEN query_fastspecfit_synthetic(targetids, <<emission_line>>, generated)
    ELSE query_fastspecfit_files(targetids, <<emission_line>>, healpix_files).result

\* get_quality_sample(emission_line, max_galaxies, min_snr): the result and the
\* frames of the call
get_quality_sample(version, emission_line, max_galaxies, min_snr, file, indices, healpix_files, generated) ==
    LET g == quality_galaxies(version, max_galaxies, file, indices)
        galaxies == g.table
    IN  IF g.outcome = "raised"
        THEN [result |-> Raised(g.error), frames |-> NoFrames]
        ELSE IF "TARGETID" \notin galaxies.columns
        THEN [result |-> without_join_key(galaxies),
              frames |-> Frames(galaxies, galaxies, NoTable, NoTable, NoTable, {},
                                "no TARGETID")]
        ELSE
        LET galaxies_cast == IF version = "new" THEN assign_targetid(galaxies) ELSE galaxies
            assigned_1 == IF version = "new" THEN {"galaxies"} ELSE {}
            targetids == [k \in 1..Len(galaxies_cast.rows) |->
                            galaxies_cast.rows[k]["TARGETID"]]
            e == quality_emission(version, targetids, emission_line, healpix_files, generated)
            emission_data == e.table
        IN  IF e.outcome = "raised"
            THEN [result |-> Raised(e.error),
                  frames |-> Frames(galaxies, galaxies_cast, NoTable, NoTable, NoTable,
                                    assigned_1, "raised")]
            ELSE IF Len(emission_data.rows) = 0
            THEN [result |-> without_emission(emission_data),
                  frames |-> Frames(galaxies, galaxies_cast, emission_data, emission_data,
                                    NoTable, assigned_1, "no emission data")]
            ELSE
            LET emission_cast == IF version = "new"
                                 THEN assign_targetid(emission_data) ELSE emission_data
                assigned_2 == IF version = "new"
                              THEN assigned_1 \cup {"emission_data"} ELSE assigned_1
            IN  IF \/ flux_col(emission_line) \notin emission_cast.columns
                   \/ ivar_col(emission_line) \notin emission_cast.columns
                THEN [result |-> without_flux_columns(galaxies_cast, emission_cast),
                      frames |-> Frames(galaxies, galaxies_cast, emission_data,
                                        emission_cast, NoTable, assigned_2,
                                        "no flux columns")]
                ELSE
                LET clean_emission == clean_rows(emission_cast, emission_line, min_snr)
                    merged == IF version = "new"
                              THEN merge(native(galaxies_cast), native(clean_emission))
                              ELSE merge(galaxies_cast, clean_emission)
                IN  [result |-> Returned(merged, <<>>),
                     frames |-> Frames(galaxies, galaxies_cast, emission_data,
                                       emission_cast, clean_emission, assigned_2,
                                       "merged")]

\* the generator after get_quality_sample: the np.random.choice of
\* query_galaxies, then, in the new loader and if the call gets that far, the
\* synthetic query
rng_after_quality(state, version, emission_line, max_galaxies, file, frames) ==
    LET drawn == rng_after_choice(state, version, max_galaxies, file, None, None,
                                  default_z_range(version))
    IN  IF version = "new" /\ frames.exit \in {"no emission data", "no flux columns", "merged"}
        THEN rng_after_synthetic(drawn, Len(frames.galaxies.rows), <<emission_line>>)
        ELSE drawn

\* the inputs of get_quality_sample
EmissionLines == {"HALPHA", "HBETA"}
MinSnrVals == {Fin(3), Fin(-1)}

\* a second ELG row that passes the old loader's default redshift cut
RowNear == LssRow(2, 12, Fin(20), Fin(4), Fin(1), Fin(2), Fin(3), Fin(1), Fin(2), Fin(3))

QualityRowPool == {RowLow, RowNear}
QualitySchemas == {ClusteringCols, SkyOnlyCols}

QualityFiles ==
    {Unavailable} \cup
    { FitsTable(names, rows) :
        names \in QualitySchemas, rows \in SeqsUpTo(QualityRowPool, MaxRows) }

\* FastSpecFit rows: a reliable detection of target 1 and a row of target 2
\* without H-alpha flux
QualityEmissionPool ==
    { EmissionRow(1, Fin(4), Fin(1), Fin(2), Fin(4), Fin(1), Fin(1), Fin(5)),
      EmissionRow(2, Fin(0), Fin(4), Fin(0), Fin(1), Fin(2), Fin(1), Fin(6)) }

\* FastSpecFit files with and without the H-alpha inverse variance column
QualityEmissionSchemas ==
    { {"TARGETID", "HALPHA_FLUX", "HALPHA_FLUX_IVAR", "SFR_HALPHA", "STELLAR_MASS"},
      {"TARGETID", "HALPHA_FLUX", "SFR_HALPHA", "STELLAR_MASS"} }

QualityHealpixFiles(names) ==
    {Unavailable} \cup
    { FitsTable(names, rows) : rows \in SeqsUpTo(QualityEmissionPool, MaxHealpixRows) }

\* what the emission query of a call reads: the three healpix files (old
\* loader) or the generator's draws, one per galaxy (new loader)
EmissionSources(version, n) ==
    IF version = "new"
    THEN { [files |-> <<>>, generated |-> d] : d \in [1..n -> SyntheticPool] }
    ELSE { [files |-> f, generated |-> <<>>] :
             f \in UNION { [healpix_range -> QualityHealpixFiles(names)] :
                             names \in QualityEmissionSchemas } }

(* -------------------- calculate_optimal_projection -------------------- *)

\* float64 values of the projection are fixed-point integers: v stands for
\* v / Scale
Scale == 1000

\* the product and the quotient of two fixed-point values
fmul(a, b) == (a * b) \div Scale
fdiv(a, b) == (a * Scale) \div b

RECURSIVE isqrt_in(_, _, _)
\* the r with lo <= r < hi and r * r <= n < (r + 1) * (r + 1)
isqrt_in(n, lo, hi) ==
    IF hi - lo <= 1 THEN lo
    ELSE LET mid == (lo + hi) \div 2
         IN  IF mid * mid <= n THEN isqrt_in(n, mid, hi) ELSE isqrt_in(n, lo, mid)

\* np.sqrt(a**2 + b**2 + c**2) of three fixed-point values
norm3(a, b, c) == isqrt_in(a * a + b * b + c * c, 0, 2 * Scale + 1)

\* np.cos(np.radians(deg)) and np.sin(np.radians(deg)) at the angles of the
\* model, to the resolution of the fixed-point values
cos_deg(deg) ==
    IF deg = 0 THEN Scale
    ELSE IF deg \in {180, -180} THEN -Scale
    ELSE 0

sin_deg(deg) ==
    IF deg = 90 THEN Scale
    ELSE IF deg \in {270, -90} THEN -Scale
    ELSE 0

\* what float64 returns where the fixed-point value is 0, in units of
\* cos(pi/2) = 6.123e-17: np.radians(deg) is the float64 nearest to the angle,
\* not the angle, so cos(pi/2) = 6.1e-17, cos(3pi/2) = -1.8e-16,
\* sin(pi) = 1.2e-16, sin(-pi) = -1.2e-16
cos_residue(deg) ==
    IF deg \in {90, -90} THEN 1
    ELSE IF deg = 270 THEN -3
    ELSE 0

sin_residue(deg) ==
    IF deg = 180 THEN 2
    ELSE IF deg = -180 THEN -2
    ELSE 0

RECURSIVE sum(_)
sum(values) == IF values = <<>> THEN 0 ELSE Head(values) + sum(Tail(values))

\* np.mean
mean(values) == sum(values) \div Len(values)

\* the unit vectors of the rows (lines 48-51)
cartesian(ra, dec) ==
    [k \in 1..Len(ra) |->
       [x |-> fmul(cos_deg(dec[k]), cos_deg(ra[k])),
        y |-> fmul(cos_deg(dec[k]), sin_deg(ra[k])),
        z_cart |-> sin_deg(dec[k])]]

\* the residues of the rows' unit vectors (lines 48-51): the products of
\* cos(dec) with cos(ra) and sin(ra), where one factor is 1 or -1 or 0 and the
\* other a residue
residues(ra, dec) ==
    [k \in 1..Len(ra) |->
       [x |-> (cos_deg(dec[k]) \div Scale) * cos_residue(ra[k])
                + cos_residue(dec[k]) * (cos_deg(ra[k]) \div Scale),
        y |-> (cos_deg(dec[k]) \div Scale) * sin_residue(ra[k])
                + cos_residue(dec[k]) * (sin_deg(ra[k]) \div Scale),
        z_cart |-> sin_residue(dec[k])]]

\* the mean of the unit vectors to fixed-point resolution (lines 54-56)
mean_fixed(ra, dec) ==
    LET p == cartesian(ra, dec)
    IN  [x |-> mean([k \in 1..Len(p) |-> p[k].x]),
         y |-> mean([k \in 1..Len(p) |-> p[k].y]),
         z_cart |-> mean([k \in 1..Len(p) |-> p[k].z_cart])]

\* the mean of the unit vectors (lines 54-56) as the vector that line 60
\* normalises: where the unit components cancel, what float64 is left with is
\* the sum of the residues (its length is immaterial to the normalisation),
\* and the null vector if the residues cancel as well
mean_direction(ra, dec) ==
    LET m == mean_fixed(ra, dec)
        q == residues(ra, dec)
    IN  IF m.x # 0 \/ m.y # 0 \/ m.z_cart # 0 THEN m
        ELSE [x |-> sum([k \in 1..Len(q) |-> q[k].x]),
              y |-> sum([k \in 1..Len(q) |-> q[k].y]),
              z_cart |-> sum([k \in 1..Len(q) |-> q[k].z_cart])]

\* the rows (x_proj, y_proj, z) where the mean direction is the null vector:
\* norm is 0.0 and line 60 divides 0.0 by 0.0, which numpy evaluates to nan
\* with a RuntimeWarning; t1 is nan, "t1_norm > 0" is False and t1 falls back
\* to (1, 0, 0) (line 75); t2 is nan in every component (lines 78-80)
projection_without_center(ra, dec, z) ==
    LET p == cartesian(ra, dec)
    IN  [k \in 1..Len(ra) |->
           [x_proj |-> Fin(fmul(p[k].x, z[k])),
            y_proj |-> NaN,
            z |-> z[k]]]

\* center = mean / norm (line 60)
center_of(m, norm) ==
    [x |-> fdiv(m.x, norm), y |-> fdiv(m.y, norm), z_cart |-> fdiv(m.z_cart, norm)]

\* tangent1 (lines 67-77): the cross product of center with the north pole
\* (0, 0, 1), normalised, or (1, 0, 0) where its norm is 0
tangent1_of(center) ==
    LET c_x == center.y * 1 - center.z_cart * 0
        c_y == center.z_cart * 0 - center.x * 1
        c_z == center.x * 0 - center.y * 0
        t1_norm == norm3(c_x, c_y, c_z)
    IN  IF t1_norm > 0
        THEN [x |-> fdiv(c_x, t1_norm), y |-> fdiv(c_y, t1_norm),
              z_cart |-> fdiv(c_z, t1_norm)]
        ELSE [x |-> Scale, y |-> 0, z_cart |-> 0]

\* tangent2 (lines 80-82): the cross product of center with tangent1
tangent2_of(center, t1) ==
    [x |-> fmul(center.y, t1.z_cart) - fmul(center.z_cart, t1.y),
     y |-> fmul(center.z_cart, t1.x) - fmul(center.x, t1.z_cart),
     z_cart |-> fmul(center.x, t1.y) - fmul(center.y, t1.x)]

\* x_proj and y_proj (lines 85-86): the unit vectors' components along
\* tangent1 and tangent2, times the redshift
onto_tangents(p, z, t1, t2) ==
    [k \in 1..Len(p) |->
       [x_proj |-> Fin(fmul(fmul(p[k].x, t1.x) + fmul(p[k].y, t1.y)
                              + fmul(p[k].z_cart, t1.z_cart), z[k])),
        y_proj |-> Fin(fmul(fmul(p[k].x, t2.x) + fmul(p[k].y, t2.y)
                              + fmul(p[k].z_cart, t2.z_cart), z[k])),
        z |-> z[k]]]

\* lines 67-86 for a center
around_center(p, z, center) ==
    onto_tangents(p, z, tangent1_of(center),
                  tangent2_of(center, tangent1_of(center)))

\* lines 60-86 for the mean direction m and its norm (line 59)
around_mean(ra, dec, z, m, norm) ==
    IF norm = 0 THEN projection_without_center(ra, dec, z)
    ELSE around_center(cartesian(ra, dec), z, center_of(m, norm))

with_mean(ra, dec, z, m) == around_mean(ra, dec, z, m, norm3(m.x, m.y, m.z_cart))

\* calculate_optimal_projection of examples/galaxy_wedge_plot.py: the rows
\* (x_proj, y_proj, z)
calculate_optimal_projection(ra, dec, z) ==
    with_mean(ra, dec, z, mean_direction(ra, dec))

\* calculate_optimal_projection of test_wedge.py
calculate_optimal_projection_test(ra, dec, z) ==
    [k \in 1..Len(ra) |->
       [x_proj |-> Fin(fmul(z[k], cos_deg(ra[k]))),
        y_proj |-> Fin(fmul(z[k], sin_deg(ra[k]))),
        z |-> z[k]]]

\* the function of that name in the given script, applied to the columns of a
\* table of galaxies
project(script, points) ==
    LET ra == [k \in 1..Len(points) |-> points[k].ra]
        dec == [k \in 1..Len(points) |-> points[k].dec]
        z == [k \in 1..Len(points) |-> points[k].z]
    IN  IF script = "test_wedge" THEN calculate_optimal_projection_test(ra, dec, z)
        ELSE calculate_optimal_projection(ra, dec, z)

\* mutant of arrays_after: the angles are converted in place
\* (np.radians(ra, out=ra)), 180 degrees become 3.14
arrays_in_radians(points) ==
    [k \in 1..Len(points) |->
       [ra |-> (points[k].ra * 314) \div 18000,
        dec |-> (points[k].dec * 314) \div 18000,
        z |-> points[k].z]]

\* the caller's arrays after a call: np.radians, np.cos, np.sin and the
\* arithmetic operators return new arrays, no statement assigns into ra, dec
\* or z
arrays_after(points) == points

\* largest number of rows of a projected table
MaxPoints == 2

SkyPoint(ra, dec, z) == [ra |-> ra, dec |-> dec, z |-> z]

\* galaxies on the equator at redshift 0, 1 and 2, and one at the north pole
SkyPoints ==
    { SkyPoint(ra, 0, z) : ra \in {0, 90, 180, 270}, z \in {0, Scale, 2 * Scale} }
      \cup {SkyPoint(0, 90, Scale)}

\* the two tables of test_wedge.py: four galaxies at redshift 1.0, three
\* galaxies at RA 0 with redshifts 0.5, 1.0, 1.5
TestSameRedshift ==
    <<SkyPoint(0, 0, Scale), SkyPoint(90, 0, Scale),
      SkyPoint(180, 0, Scale), SkyPoint(270, 0, Scale)>>

TestSameAngle ==
    <<SkyPoint(0, 0, Scale \div 2), SkyPoint(0, 0, Scale),
      SkyPoint(0, 0, (3 * Scale) \div 2)>>

\* four galaxies on the equator, two by two opposite on the sky, RA 180 given
\* once as 180 and once as -180; one of them at redshift 0
Antipodal ==
    <<SkyPoint(180, 0, Scale), SkyPoint(-180, 0, Scale),
      SkyPoint(0, 0, Scale), SkyPoint(0, 0, 0)>>

SkyTables ==
    { t \in SeqsUpTo(SkyPoints, MaxPoints) : t # <<>> }
      \cup {TestSameRedshift, TestSameAngle, Antipodal}

\* the float64 sums of lines 54-56 are the ones mean_direction computes: the
\* unit components do not cancel, or no coordinate adds a unit component to a
\* residue (1.0 + 6e-17 is 1.0: there the order of the rows decides what is
\* left of the residues)
HasCenter(points) ==
    LET ra == [k \in 1..Len(points) |-> points[k].ra]
        dec == [k \in 1..Len(points) |-> points[k].dec]
        m == mean_fixed(ra, dec)
        p == cartesian(ra, dec)
        q == residues(ra, dec)
    IN  \/ m.x # 0 \/ m.y # 0 \/ m.z_cart # 0
        \/ \A j, k \in 1..Len(points) :
              /\ ~ (p[j].x # 0 /\ q[k].x # 0)
              /\ ~ (p[j].y # 0 /\ q[k].y # 0)
              /\ ~ (p[j].z_cart # 0 /\ q[k].z_cart # 0)

(* ------------------------------ actions ------------------------------- *)

Init ==
    /\ call = [op |-> "none"]
    /\ source = <<>>
    /\ outcome = "none"
    /\ error = "none"
    /\ table = NoTable
    /\ parts = <<>>
    /\ locals = NoFrames
    /\ rng = Entropy

\* no call is in progress and no result is pending
Idle == call.op = "none"

QueryGalaxies ==
    /\ Idle
    /\ \E version \in Versions, max_galaxies \in MaxGalaxiesVals, file \in LssFiles,
       ra_range \in RaRanges, dec_range \in DecRanges, z_range \in ZRanges :
        \E indices \in draws(version, max_galaxies, file, ra_range, dec_range, z_range) :
          \E r \in {query_galaxies(version, max_galaxies, "ELG_LOPnotqso", "NGC",
                                    ra_range, dec_range, z_range, file, indices)} :
              /\ call' = [op |-> "query_galaxies", version |-> version,
                          max_galaxies |-> max_galaxies, ra_range |-> ra_range,
                          dec_range |-> dec_range, z_range |-> z_range,
                          draw |-> indices]
              /\ source' = <<file>>
              /\ outcome' = r.outcome
              /\ error' = r.error
              /\ table' = r.table
              /\ parts' = <<Part(r)>>
              /\ locals' = NoFrames
              /\ rng' = rng_after_choice(rng, version, max_galaxies, file,
                                         ra_range, dec_range, z_range)

\* query_galaxies on a file of MaxSampleRows rows, with or without a redshift cut
QuerySampleFile ==
    /\ Idle
    /\ \E version \in Versions, max_galaxies \in MaxGalaxiesVals, file \in SampleFiles,
          z_range \in {None, Pair(Fin(1), Fin(2))} :
        \E indices \in draws(version, max_galaxies, file, None, None, z_range) :
          \E r \in {query_galaxies(version, max_galaxies, "ELG_LOPnotqso", "NGC",
                                    None, None, z_range, file, indices)} :
              /\ call' = [op |-> "query_galaxies", version |-> version,
                          max_galaxies |-> max_galaxies, ra_range |-> None,
                          dec_range |-> None, z_range |-> z_range,
                          draw |-> indices]
              /\ source' = <<file>>
              /\ outcome' = r.outcome
              /\ error' = r.error
              /\ table' = r.table
              /\ parts' = <<Part(r)>>
              /\ locals' = NoFrames
              /\ rng' = rng_after_choice(rng, version, max_galaxies, file,
                                         None, None, z_range)

QueryAllTracers ==
    /\ Idle
    /\ \E max_galaxies \in AllTracersMaxVals, ra_range \in RaRanges, dec_range \in DecRanges,
          names \in TracerSchemas :
       \E files \in [1..3 -> TracerFiles(names)] :
        \E indices \in
              [1..3 -> UNION { draws("new", galaxies_per_tracer(max_galaxies), files[k],
                                     ra_range, dec_range, None) : k \in 1..3 }] :
          /\ \A k \in 1..3 :
                indices[k] \in draws("new", galaxies_per_tracer(max_galaxies), files[k],
                                      ra_range, dec_range, None)
          /\ \E r \in {query_all_tracers(max_galaxies, "NGC", ra_range, dec_range,
                                           files, indices)} :
                 /\ call' = [op |-> "query_all_tracers", version |-> "new",
                             max_galaxies |-> max_galaxies, ra_range |-> ra_range,
                             dec_range |-> dec_range, z_range |-> None]
                 /\ source' = files
                 /\ outcome' = r.result.outcome
                 /\ error' = r.result.error
                 /\ table' = r.result.table
                 /\ parts' = r.parts
                 /\ locals' = NoFrames
                 /\ rng' = rng_after_tracers(rng, max_galaxies, ra_range, dec_range, files, 3)

QueryFastspecfitFiles ==
    /\ Idle
    /\ \E targetids \in TargetIdArrays, emission_lines \in EmissionLineLists,
          names \in EmissionSchemas :
        \E files \in [healpix_range -> HealpixFiles(names)] :
          \E r \in {query_fastspecfit_files(targetids, emission_lines, files)} :
              /\ call' = [op |-> "query_fastspecfit_data", version |-> "old",
                          targetids |-> targetids, emission_lines |-> emission_lines]
              /\ source' = files
              /\ outcome' = r.result.outcome
              /\ error' = r.result.error
              /\ table' = r.result.table
              /\ parts' = r.parts
              /\ locals' = NoFrames
              /\ rng' = rng

GetQualitySample ==
    /\ Idle
    /\ \E version \in Versions, emission_line \in EmissionLines, min_snr \in MinSnrVals,
          file \in QualityFiles :
        \E g \in {quality_galaxies(version, MaxGalaxies, file, <<>>)} :
          \E src \in EmissionSources(version, Len(g.table.rows)) :
            \E r \in {get_quality_sample(version, emission_line, MaxGalaxies, min_snr,
                                          file, <<>>, src.files, src.generated)} :
              /\ call' = [op |-> "get_quality_sample", version |-> version,
                          emission_line |-> emission_line,
                          max_galaxies |-> MaxGalaxies, min_snr |-> min_snr]
              /\ source' = <<file>> \o src.files
              /\ outcome' = r.result.outcome
              /\ error' = r.result.error
              /\ table' = r.result.table
              /\ parts' = <<Part(g)>>
              /\ locals' = r.frames
              /\ rng' = rng_after_quality(rng, version, emission_line, MaxGalaxies,
                                          file, r.frames)

\* query_fastspecfit_data of the new loader
QueryFastspecfitSynthetic ==
    /\ Idle
    /\ \E targetids \in TargetIdArrays, emission_lines \in SyntheticLineLists :
        \E r \in {query_fastspecfit_seeded(rng, targetids, emission_lines)} :
          /\ call' = [op |-> "query_fastspecfit_data", version |-> "new",
                      targetids |-> targetids, emission_lines |-> emission_lines,
                      rng |-> rng]
          /\ source' = <<>>
          /\ outcome' = r.outcome
          /\ error' = r.error
          /\ table' = r.table
          /\ parts' = <<>>
          /\ locals' = NoFrames
          /\ rng' = rng_after_synthetic(rng, Len(targetids), emission_lines)

\* create_wedge_plot projects the galaxy table
ProjectWedge ==
    /\ Idle
    /\ \E points \in SkyTables :
        /\ HasCenter(points)
        /\ call' = [op |-> "calculate_optimal_projection", script |-> "galaxy_wedge_plot"]
        /\ source' = points
        /\ outcome' = "returned"
        /\ error' = "none"
        /\ table' = DataFrame({"x_proj", "y_proj", "z"},
                              calculate_optimal_projection(
                                  [k \in 1..Len(points) |-> points[k].ra],
                                  [k \in 1..Len(points) |-> points[k].dec],
                                  [k \in 1..Len(points) |-> points[k].z]))
        /\ parts' = <<>>
        /\ locals' = [arrays |-> arrays_after(points)]
        /\ rng' = rng

\* test_wedge.py projects a table
ProjectTest ==
    /\ Idle
    /\ \E points \in SkyTables :
        /\ call' = [op |-> "calculate_optimal_projection", script |-> "test_wedge"]
        /\ source' = points
        /\ outcome' = "returned"
        /\ error' = "none"
        /\ table' = DataFrame({"x_proj", "y_proj", "z"},
                              calculate_optimal_projection_test(
                                  [k \in 1..Len(points) |-> points[k].ra],
                                  [k \in 1..Len(points) |-> points[k].dec],
                                  [k \in 1..Len(points) |-> points[k].z]))
        /\ parts' = <<>>
        /\ locals' = [arrays |-> arrays_after(points)]
        /\ rng' = rng

\* the script calls its projector a second time, on the arrays as the first
\* call left them; parts keeps what the first call returned
ProjectAgain ==
    /\ call.op = "calculate_optimal_projection"
    /\ parts = <<>>
    /\ table' = DataFrame({"x_proj", "y_proj", "z"}, project(call.script, locals.arrays))
    /\ parts' = <<table>>
    /\ locals' = [arrays |-> arrays_after(locals.arrays)]
    /\ UNCHANGED <<call, source, outcome, error, rng>>

\* the caller takes the returned table (or catches the exception); the loader
\* keeps nothing of a call, the process keeps the state of its generator
Consume ==
    /\ ~ Idle
    /\ call' = [op |-> "none"]
    /\ source' = <<>>
    /\ outcome' = "none"
    /\ error' = "none"
    /\ table' = NoTable
    /\ parts' = <<>>
    /\ locals' = NoFrames
    /\ rng' = rng

Next == QueryGalaxies \/ QueryAllTracers \/ QueryFastspecfitFiles \/ Consume

Spec == Init /\ [][Next]_vars

\* the calls of get_quality_sample and of the synthetic query it relies on
NextQuality == GetQualitySample \/ QueryFastspecfitSynthetic \/ Consume

SpecQuality == Init /\ [][NextQuality]_vars

\* the projections of the wedge plot and of its test script
NextProjection == ProjectWedge \/ ProjectTest \/ ProjectAgain \/ Consume

SpecProjection == Init /\ [][NextProjection]_vars

\* the synthetic FastSpecFit queries, between subsampling galaxy queries
NextSynthetic == QueryFastspecfitSynthetic \/ QueryGalaxies \/ Consume

SpecSynthetic == Init /\ [][NextSynthetic]_vars

\* the galaxy queries that subsample two or more rows
NextSampling == QuerySampleFile \/ Consume

SpecSampling == Init /\ [][NextSampling]_vars

(* ------------------------------ claims -------------------------------- *)

\* a <= b as numbers, neither being NaN
NumLeq(a, b) ==
    /\ a.cls # "nan"
    /\ b.cls # "nan"
    /\ (b.cls = "inf" \/ (a.cls = "fin" /\ b.cls = "fin" /\ a.val <= b.val))

\* lo <= v <= hi
Between(v, range) == NumLeq(range.lo, v) /\ NumLeq(v, range.hi)

QGCall == call.op = "query_galaxies"
QGReturned == QGCall /\ outcome = "returned"

\* the file rows that pass the cuts the call applies
Admitted ==
    { i \in 1..Len(source[1].rows) :
        mask(call.version, source[1], call.ra_range, call.dec_range, call.z_range, i) }

Min(a, b) == IF a <= b THEN a ELSE b

\* C1: with ra_range=(lo,hi) and a file that has an RA column, every returned
\* row has lo <= RA <= hi, both bounds inclusive; the same for DEC and dec_range.
C1_RangeFilter ==
    QGReturned =>
      /\ (call.ra_range.given /\ "RA" \in source[1].names) =>
           \A k \in 1..Len(table.rows) : Between(table.rows[k]["RA"], call.ra_range)
      /\ (call.dec_range.given /\ "DEC" \in source[1].names) =>
           \A k \in 1..Len(table.rows) : Between(table.rows[k]["DEC"], call.dec_range)

\* C1 witness: both cuts given, one of two file rows fails a cut and the row
\* that is returned lies on a bound of the RA range
C1_Witness ==
    /\ QGReturned
    /\ call.ra_range.given /\ call.dec_range.given
    /\ {"RA", "DEC"} \subseteq source[1].names
    /\ Len(source[1].rows) = 2
    /\ Len(table.rows) = 1
    /\ table.rows[1]["RA"] = call.ra_range.hi
    /\ \E i \in 1..2 : ~ Between(source[1].rows[i]["RA"], call.ra_range)
                       \/ ~ Between(source[1].rows[i]["DEC"], call.dec_range)

\* C2: the number of returned rows is at most max_galaxies and equals
\* min(max_galaxies, number of file rows that pass the cuts).
C2_SubsamplingBound ==
    QGReturned =>
      /\ Len(table.rows) <= call.max_galaxies
      /\ Len(table.rows) = Min(call.max_galaxies, Cardinality(Admitted))

\* C2 witness: more rows pass than max_galaxies >= 1 and exactly max_galaxies return
C2_Witness ==
    /\ QGReturned
    /\ call.max_galaxies >= 1
    /\ Cardinality(Admitted) > call.max_galaxies
    /\ Len(table.rows) = call.max_galaxies

\* C3 (as claimed): with z_range=(lo,hi), every row returned by query_galaxies
\* (of src/src) has its canonical Z in [lo,hi], for every file that has one of
\* Z, Z_not4clus, REDSHIFT.
C3_RedshiftFilter ==
    (QGReturned /\ call.version = "new" /\ call.z_range.given /\ "Z" \in table.columns) =>
      \A k \in 1..Len(table.rows) : Between(table.rows[k]["Z"], call.z_range)

\* the TARGETID of file f's row i, in the column the loader maps to TARGETID
SourceId(f, i) == source[f].rows[i][first_present("TARGETID", source[f].names)]

\* the rows of the files read that carry a TARGETID
IdPositions ==
    { p \in UNION { {<<f, i>> : i \in 1..Len(source[f].rows)} : f \in 1..Len(source) } :
        present("TARGETID", source[p[1]].names) # {} }

\* no two rows of the files read share a TARGETID
SourceIdsDistinct ==
    \A p, q \in IdPositions : p # q => SourceId(p[1], p[2]) # SourceId(q[1], q[2])

LoaderReturned ==
    call.op \in {"query_galaxies", "query_all_tracers"} /\ outcome = "returned"

TableIdsDistinct ==
    \A i, j \in 1..Len(table.rows) :
      i # j => table.rows[i]["TARGETID"] # table.rows[j]["TARGETID"]

\* C4 (as claimed): no table produced by query_galaxies or query_all_tracers
\* has two rows with the same TARGETID.
C4_UniqueIds ==
    (LoaderReturned /\ "TARGETID" \in table.columns) => TableIdsDistinct

\* C4 (amended): the loader adds no duplicate: when the rows of the files read
\* have pairwise distinct TARGETIDs, so has the table returned.
C4_UniqueIdsOfDistinctSource ==
    (LoaderReturned /\ "TARGETID" \in table.columns /\ SourceIdsDistinct) => TableIdsDistinct

\* C4 witness: query_all_tracers returns rows of two tracers with distinct ids
C4_Witness ==
    /\ call.op = "query_all_tracers" /\ outcome = "returned"
    /\ SourceIdsDistinct
    /\ Len(table.rows) >= 2
    /\ TableIdsDistinct

\* C5 (as claimed): when no file row passes the cuts, query_galaxies (of
\* src/src, max_galaxies >= 0) fails with EmptyResult instead of returning a table.
C5_EmptyResultRaised ==
    ( /\ QGCall /\ call.version = "new" /\ call.max_galaxies >= 0
      /\ source[1].status = "ok" /\ Admitted = {} ) =>
      (outcome = "raised" /\ error = "EmptyResult")

\* C5 (amended): query_galaxies never fails with EmptyResult; when no file row
\* passes the cuts every call that returns gives a table of zero rows, and the
\* loader of src/src called with max_galaxies >= 0 does return.
C5_EmptyTableReturned ==
    (QGCall /\ source[1].status = "ok" /\ Admitted = {}) =>
      /\ error # "EmptyResult"
      /\ outcome = "returned" => Len(table.rows) = 0
      /\ (call.version = "new" /\ call.max_galaxies >= 0) => outcome = "returned"

\* C5 witness: a file with rows, none of which passes, gives an empty table
C5_Witness ==
    /\ QGReturned
    /\ call.version = "new"
    /\ Len(source[1].rows) >= 1
    /\ Admitted = {}
    /\ table.rows = <<>>

\* C6: when the catalog file cannot be downloaded, query_galaxies fails with
\* the error download_lss_file raises and returns no table.
C6_DownloadFailureRaises ==
    (QGCall /\ source[1].status = "unavailable") =>
      /\ outcome = "raised"
      /\ error = "RuntimeError"
      /\ table = NoTable

\* C6 witness: a call on an unavailable file has ended
C6_Witness == QGCall /\ source[1].status = "unavailable" /\ outcome = "raised"

FSCall == call.op = "query_fastspecfit_data" /\ call.version = "old"

FailedHealpix == { h \in healpix_range : source[h].status # "ok" }

\* the rows of the readable healpix files whose TARGETID is asked for
MatchingRows ==
    { p \in UNION { {<<h, i>> : i \in 1..Len(source[h].rows)} : h \in healpix_range } :
        \E k \in 1..Len(call.targetids) :
          call.targetids[k] = source[p[1]].rows[p[2]]["TARGETID"] }

\* C7 (as claimed): if downloading or reading a healpix file fails, the failure
\* reaches the caller of query_fastspecfit_data and no table is returned.
C7_FailurePropagates == (FSCall /\ FailedHealpix # {}) => outcome = "raised"

\* C7 (amended): the file-backed query_fastspecfit_data catches the failure of
\* a healpix file and skips the file: the call always returns, with the matching
\* rows of the files it could read, and with an empty table of the expected
\* columns when every file failed.
C7_FailureSwallowed ==
    FSCall =>
      /\ outcome = "returned"
      /\ Len(table.rows) = Cardinality(MatchingRows)
      /\ FailedHealpix = healpix_range =>
           /\ table.rows = <<>>
           /\ table.columns = expected_columns(call.emission_lines)

\* C7 witness: every healpix file failed, two of them differently, and the
\* call returned an empty table
C7_Witness ==
    /\ FSCall
    /\ FailedHealpix = healpix_range
    /\ \E h, g \in healpix_range : source[h].status # source[g].status
    /\ call.targetids # <<>>
    /\ outcome = "returned"
    /\ table.rows = <<>>

QATCall == call.op = "query_all_tracers"

LoadedTracers == { k \in 1..Len(parts) : parts[k].outcome = "returned" }

RECURSIVE SumPicked(_)
SumPicked(n) ==
    IF n = 0 THEN 0
    ELSE SumPicked(n - 1) + (IF n \in LoadedTracers THEN Len(parts[n].picked) ELSE 0)

\* C8 (as claimed): if one tracer's file cannot be loaded, query_all_tracers
\* returns no table, and so never a table that holds the other tracers' rows.
C8_NoPartialTable ==
    (QATCall /\ LoadedTracers # 1..3) => ~ (outcome = "returned" /\ Len(table.rows) >= 1)

\* C8 (amended): query_all_tracers skips a tracer whose load fails and returns
\* the rows of the tracers that loaded; it fails, with RuntimeError, exactly
\* when no tracer loaded.
C8_PartialTableReturned ==
    QATCall =>
      /\ outcome = "returned" <=> LoadedTracers # {}
      /\ outcome = "raised" => error = "RuntimeError"
      /\ outcome = "returned" =>
           /\ Len(table.rows) = SumPicked(3)
           /\ \A i \in 1..Len(table.rows) :
                \E k \in LoadedTracers : table.rows[i]["SPECTYPE"] = tracer_types[k]

\* C8 witness: one tracer's file is unavailable and the rows of another are
\* returned
C8_Witness ==
    /\ QATCall
    /\ outcome = "returned"
    /\ \E k \in 1..3 : source[k].status = "unavailable"
    /\ Len(table.rows) >= 1

\* C9 (as claimed): every returned row has a finite redshift, for every
\* z_range including None.
C9_RedshiftFinite ==
    (QGReturned /\ "Z" \in table.columns) =>
      \A k \in 1..Len(table.rows) : table.rows[k]["Z"].cls = "fin"

\* C9 (amended): every returned row has a finite redshift when z_range=(lo,hi)
\* with finite lo and hi is given and the file has a Z or Z_not4clus column;
\* no row is excluded for a NaN or infinite redshift otherwise.
C9_RedshiftFiniteWhenCut ==
    ( /\ QGReturned
      /\ call.z_range.given
      /\ call.z_range.lo.cls = "fin" /\ call.z_range.hi.cls = "fin"
      /\ {"Z", "Z_not4clus"} \cap source[1].names # {} ) =>
      \A k \in 1..Len(table.rows) : table.rows[k]["Z"].cls = "fin"

\* C9 witness: a file with a Z_not4clus column holds a row of NaN or infinite
\* redshift and a finite one; the cut returns the finite one only
C9_Witness ==
    /\ QGReturned
    /\ call.z_range.given /\ call.z_range.hi.cls = "fin"
    /\ ~ call.ra_range.given /\ ~ call.dec_range.given
    /\ "Z" \notin source[1].names /\ "Z_not4clus" \in source[1].names
    /\ \E i \in 1..Len(source[1].rows) : source[1].rows[i]["Z_not4clus"].cls # "fin"
    /\ Len(table.rows) = 1
    /\ table.rows[1]["Z"].cls = "fin"

\* C10 (as claimed): with z_range=None query_galaxies applies no redshift cut
\* and returns normally, for every file schema, in both versions of the loader.
C10_NoneMeansNoCut ==
    (QGCall /\ ~ call.z_range.given /\ source[1].status = "ok" /\ call.max_galaxies >= 0) =>
      /\ outcome = "returned"
      /\ (~ call.ra_range.given /\ ~ call.dec_range.given
          /\ call.max_galaxies >= Len(source[1].rows)) =>
           Len(table.rows) = Len(source[1].rows)

\* the file row behind returned row r of query_galaxies
PickedRow(r) == source[1].rows[parts[1].picked[r]]

\* C11: each canonical column of the table query_galaxies returns holds the
\* values of the first candidate source column the file has, in the order of the
\* column's candidate list (Z: Z, then Z_not4clus, then REDSHIFT); a canonical
\* column is missing from the table exactly when the file has none of its
\* candidates.
C11_FirstPresentWins ==
    QGReturned =>
      /\ \A s \in StdNames :
            s \in table.columns <=>
              \E k \in 1..Len(column_map[s]) : column_map[s][k] \in source[1].names
      /\ \A s \in StdNames \cap table.columns : \A r \in 1..Len(table.rows) :
            \E k \in 1..Len(column_map[s]) :
               /\ column_map[s][k] \in source[1].names
               /\ \A m \in 1..(k - 1) : column_map[s][m] \notin source[1].names
               /\ table.rows[r][s] = PickedRow(r)[column_map[s][k]]
      /\ "Z" \in table.columns =>
            \A r \in 1..Len(table.rows) :
               table.rows[r]["Z"] =
                 IF "Z" \in source[1].names THEN PickedRow(r)["Z"]
                 ELSE IF "Z_not4clus" \in source[1].names THEN PickedRow(r)["Z_not4clus"]
                 ELSE PickedRow(r)["REDSHIFT"]

\* C11 witness: a file without Z, RA and DEC but with Z_not4clus and REDSHIFT
\* holding different values; the returned Z is the Z_not4clus value and the
\* table has no RA column
C11_Witness ==
    /\ QGReturned
    /\ source[1].names = NoSkyCols
    /\ Len(table.rows) = 1
    /\ PickedRow(1)["Z_not4clus"] # PickedRow(1)["REDSHIFT"]
    /\ table.rows[1]["Z"] = PickedRow(1)["Z_not4clus"]
    /\ "RA" \notin table.columns

\* C12: for max_galaxies >= 0 the table query_all_tracers returns has at most
\* max_galaxies rows, whatever the sizes of the three files and whichever of
\* them fail to load.
C12_TotalBound ==
    (QATCall /\ outcome = "returned" /\ call.max_galaxies >= 0) =>
        Len(table.rows) <= call.max_galaxies

\* C12 witness: the three files together hold more rows than max_galaxies and
\* a table is returned
C12_Witness ==
    /\ QATCall /\ outcome = "returned"
    /\ call.max_galaxies >= 0
    /\ \A k \in 1..3 : source[k].status = "ok" /\ Len(source[k].rows) >= 1
    /\ call.max_galaxies < 3
    /\ Len(table.rows) <= call.max_galaxies

QSCall == call.op = "get_quality_sample"
QSReturned == QSCall /\ outcome = "returned"

\* the TARGETIDs of a frame, row by row
IdsOf(df) == [k \in 1..Len(df.rows) |-> df.rows[k]["TARGETID"]]

NoRepeat(seq) == \A i, j \in 1..Len(seq) : i # j => seq[i] # seq[j]

\* C13: every row of the table get_quality_sample returns has a TARGETID that
\* occurs in the galaxy table and in the emission table, and its emission
\* fields are those of an emission row with that TARGETID.
C13_InnerJoin ==
    (QSReturned /\ "TARGETID" \in table.columns) =>
      \A r \in 1..Len(table.rows) :
        /\ \E g \in 1..Len(locals.galaxies.rows) :
              locals.galaxies.rows[g]["TARGETID"] = table.rows[r]["TARGETID"]
        /\ \E e \in 1..Len(locals.emission_data.rows) :
              /\ locals.emission_data.rows[e]["TARGETID"] = table.rows[r]["TARGETID"]
              /\ \A c \in locals.emission_data.columns :
                    table.rows[r][c] = locals.emission_data.rows[e][c]

\* C13 witness: a join that keeps a galaxy and drops another one, whose
\* emission row differs
C13_Witness ==
    /\ QSReturned
    /\ locals.exit = "merged"
    /\ Len(locals.galaxies.rows) = 2
    /\ Len(locals.emission_data.rows) = 2
    /\ Len(table.rows) = 1
    /\ locals.emission_data.rows[1] # locals.emission_data.rows[2]
    /\ NoRepeat(IdsOf(locals.galaxies))

Positive(x) == x.cls = "fin" /\ x.val > 0

\* flux > 0, ivar > 0, both finite and flux * sqrt(ivar) > min_snr
QualityOK(row, emission_line, min_snr) ==
    /\ {flux_col(emission_line), ivar_col(emission_line)} \subseteq DOMAIN row
    /\ Positive(row[flux_col(emission_line)])
    /\ Positive(row[ivar_col(emission_line)])
    /\ \E root \in 0..row[ivar_col(emission_line)].val :
          /\ root * root = row[ivar_col(emission_line)].val
          /\ row[flux_col(emission_line)].val * root > min_snr.val

\* the emission table has the flux and the inverse variance column of the line
CutColumns ==
    {flux_col(call.emission_line), ivar_col(call.emission_line)}
        \subseteq locals.emission_data.columns

\* C14 (as claimed): every row get_quality_sample returns passed the quality
\* cut; in particular a returned row that has the line's flux has flux > 0.
C14_QualityRows ==
    QSReturned =>
      \A r \in 1..Len(table.rows) :
        flux_col(call.emission_line) \in table.columns =>
          Positive(table.rows[r][flux_col(call.emission_line)])

\* C14 (amended): when the emission table has the line's flux and inverse
\* variance columns, every returned row has flux > 0, ivar > 0, both finite,
\* and flux * sqrt(ivar) > min_snr.
C14_QualityRowsWhenCut ==
    (QSReturned /\ locals.exit \in {"merged", "no flux columns"} /\ CutColumns) =>
      \A r \in 1..Len(table.rows) :
        QualityOK(table.rows[r], call.emission_line, call.min_snr)

\* C14 witness: the cut drops one emission row and keeps another
C14_Witness ==
    /\ QSReturned
    /\ CutColumns
    /\ Len(locals.emission_data.rows) = 2
    /\ Len(table.rows) = 1
    /\ QualityOK(table.rows[1], call.emission_line, call.min_snr)

\* the emission rows that pass the quality cut
AdmissibleEmissions ==
    { e \in 1..Len(locals.emission_data.rows) :
        QualityOK(locals.emission_data.rows[e], call.emission_line, call.min_snr) }

AdmissibleIds ==
    { locals.emission_data.rows[e]["TARGETID"] : e \in AdmissibleEmissions }

\* C15 (as claimed): the joined table has at most min(galaxy rows, emission
\* rows that pass the cut) rows.
C15_JoinSize ==
    (QSReturned /\ locals.exit = "merged") =>
        Len(table.rows) <=
          Min(Len(locals.galaxies.rows), Cardinality(AdmissibleEmissions))

\* C15 (amended): the bound holds when no TARGETID occurs twice in the galaxy
\* table and none occurs twice among the emission rows that pass the cut.
C15_JoinSizeOfDistinctIds ==
    (/\ QSReturned /\ locals.exit = "merged"
     /\ NoRepeat(IdsOf(locals.galaxies))
     /\ Cardinality(AdmissibleIds) = Cardinality(AdmissibleEmissions)) =>
        Len(table.rows) <=
          Min(Len(locals.galaxies.rows), Cardinality(AdmissibleEmissions))

\* C15 witness: two galaxies with different TARGETIDs, one emission row that
\* passes the cut, one joined row
C15_Witness ==
    /\ QSReturned /\ locals.exit = "merged"
    /\ NoRepeat(IdsOf(locals.galaxies))
    /\ Len(locals.galaxies.rows) = 2
    /\ Cardinality(AdmissibleEmissions) = 1
    /\ Len(table.rows) = 1

\* the galaxy file was read and has no TARGETID-equivalent column
NoJoinKey ==
    /\ QSCall
    /\ source[1].status = "ok"
    /\ \A k \in 1..Len(column_map["TARGETID"]) :
          column_map["TARGETID"][k] \notin source[1].names

\* C16 (as claimed): without a TARGETID column in the galaxy table
\* get_quality_sample fails with MissingJoinKey and returns no table.
C16_MissingJoinKeyRaised ==
    NoJoinKey => (outcome = "raised" /\ error = "MissingJoinKey")

\* C16 (amended): without a TARGETID column in the galaxy table
\* get_quality_sample raises nothing and returns the galaxy table as
\* query_galaxies gave it; the emission table of the new loader always has a
\* TARGETID column.
C16_GalaxiesReturnedWithoutKey ==
    /\ NoJoinKey =>
         /\ outcome = "returned"
         /\ error = "none"
         /\ table = locals.galaxies
         /\ locals.emission_data = NoTable
    /\ (QSCall /\ call.version = "new" /\ locals.emission_data # NoTable) =>
         "TARGETID" \in locals.emission_data.columns

\* C16 witness: a galaxy file with RA and DEC only, its rows are returned
C16_Witness ==
    /\ NoJoinKey
    /\ outcome = "returned"
    /\ Len(table.rows) >= 1
    /\ "TARGETID" \notin table.columns

\* the galaxy query returned a table with a TARGETID column
GalaxiesKeyed ==
    /\ QSCall
    /\ parts[1].outcome = "returned"
    /\ "TARGETID" \in locals.galaxies.columns

SharedIds ==
    { locals.galaxies.rows[g]["TARGETID"] : g \in 1..Len(locals.galaxies.rows) }
      \cap { locals.emission_data.rows[e]["TARGETID"] :
               e \in 1..Len(locals.emission_data.rows) }

\* C17: when the galaxy table is empty, or the cut is applied and no emission
\* row passes it, or the two tables share no TARGETID, get_quality_sample
\* returns a table without rows and raises nothing.
C17_EmptyJoin ==
    /\ (QSCall /\ parts[1].outcome = "returned" /\ locals.galaxies.rows = <<>>) =>
          (outcome = "returned" /\ error = "none" /\ table.rows = <<>>)
    /\ (GalaxiesKeyed /\ CutColumns /\ AdmissibleEmissions = {}) =>
          (outcome = "returned" /\ error = "none" /\ table.rows = <<>>)
    /\ (GalaxiesKeyed /\ SharedIds = {}) =>
          (outcome = "returned" /\ error = "none" /\ table.rows = <<>>)

\* C17 witness: galaxies and emission rows for them exist, none passes the
\* cut, and an empty table is returned
C17_Witness ==
    /\ GalaxiesKeyed
    /\ CutColumns
    /\ Len(locals.galaxies.rows) >= 1
    /\ Len(locals.emission_data.rows) >= 1
    /\ SharedIds # {}
    /\ AdmissibleEmissions = {}
    /\ outcome = "returned"
    /\ table.rows = <<>>

ProjCall == call.op = "calculate_optimal_projection"

\* |a - b| is within a hundredth
Close(a, b) == a - b <= Scale \div 100 /\ b - a <= Scale \div 100

\* C19 (as claimed): every projected row has x^2 + y^2 = redshift^2, for the
\* projection of the wedge plot as for the one of test_wedge.py.
C19_OnCircle ==
    ProjCall =>
      \A r \in 1..Len(table.rows) :
        Close(fmul(table.rows[r].x_proj.val, table.rows[r].x_proj.val)
                + fmul(table.rows[r].y_proj.val, table.rows[r].y_proj.val),
              fmul(table.rows[r].z, table.rows[r].z))

\* C19 restricted to test_wedge.py: there the rows do lie on the circle
C19_OnCircleInTest ==
    (ProjCall /\ call.script = "test_wedge") =>
      \A r \in 1..Len(table.rows) :
        fmul(table.rows[r].x_proj.val, table.rows[r].x_proj.val)
          + fmul(table.rows[r].y_proj.val, table.rows[r].y_proj.val)
            = fmul(table.rows[r].z, table.rows[r].z)

\* C20 (as claimed): the image of a row is (redshift * cos(ra),
\* redshift * sin(ra)), rows in input order.
C20_PolarImage ==
    ProjCall =>
      /\ Len(table.rows) = Len(source)
      /\ \A r \in 1..Len(table.rows) :
           /\ Close(table.rows[r].x_proj.val, fmul(source[r].z, cos_deg(source[r].ra)))
           /\ Close(table.rows[r].y_proj.val, fmul(source[r].z, sin_deg(source[r].ra)))

\* C20 restricted to test_wedge.py: the four galaxies at redshift 1 are sent
\* to (1,0), (0,1), (-1,0), (0,-1)
C20_TestImages ==
    (ProjCall /\ call.script = "test_wedge" /\ source = TestSameRedshift) =>
      /\ Len(table.rows) = 4
      /\ <<table.rows[1].x_proj, table.rows[1].y_proj>> = <<Fin(Scale), Fin(0)>>
      /\ <<table.rows[2].x_proj, table.rows[2].y_proj>> = <<Fin(0), Fin(Scale)>>
      /\ <<table.rows[3].x_proj, table.rows[3].y_proj>> = <<Fin(-Scale), Fin(0)>>
      /\ <<table.rows[4].x_proj, table.rows[4].y_proj>> = <<Fin(0), Fin(-Scale)>>

\* C21 (as claimed): a row with ra = 0 and redshift r is sent to x = r, y = 0,
\* so its distance from the origin is r.
C21_RadiusScaling ==
    ProjCall =>
      \A r \in 1..Len(table.rows) :
        source[r].ra = 0 =>
          /\ table.rows[r].x_proj = Fin(source[r].z)
          /\ table.rows[r].y_proj = Fin(0)

\* C21 restricted to test_wedge.py: there the rows at ra = 0 are sent to (r, 0)
C21_RadiusScalingInTest ==
    (ProjCall /\ call.script = "test_wedge") =>
      \A r \in 1..Len(table.rows) :
        source[r].ra = 0 =>
          /\ table.rows[r].x_proj = Fin(source[r].z)
          /\ table.rows[r].y_proj = Fin(0)

\* two tables have the same rows up to the declinations
SameButDec(a, b) ==
    /\ Len(a) = Len(b)
    /\ \A k \in 1..Len(a) : a[k].ra = b[k].ra /\ a[k].z = b[k].z

\* C22 (as claimed): the projection reads ra and redshift only: a table that
\* differs from the projected one in declinations only has the same image.
C22_DecIgnored ==
    ProjCall =>
      \A other \in SkyTables :
        SameButDec(source, other) => project(call.script, other) = table.rows

\* C22 restricted to test_wedge.py, whose function does not read dec
C22_DecIgnoredInTest ==
    (ProjCall /\ call.script = "test_wedge") =>
      \A other \in SkyTables :
        SameButDec(source, other) => project(call.script, other) = table.rows

\* C23 (as claimed): no cross-row dependency: projecting the first k rows and
\* the remaining rows in two calls and concatenating gives the rows of the one
\* call on the whole table, in the same order.
C23_RowWise ==
    ProjCall =>
      \A k \in 1..(Len(source) - 1) :
        project(call.script, SubSeq(source, 1, k))
          \o project(call.script, SubSeq(source, k + 1, Len(source)))
            = table.rows

\* C23 restricted to test_wedge.py, whose function is row-wise
C23_RowWiseInTest ==
    (ProjCall /\ call.script = "test_wedge") =>
      \A k \in 1..(Len(source) - 1) :
        project(call.script, SubSeq(source, 1, k))
          \o project(call.script, SubSeq(source, k + 1, Len(source)))
            = table.rows

\* C24 (as claimed): the projector has no error condition: every row of a
\* table of finite ra, dec and redshift has a finite image, and a row of
\* redshift 0 is sent to the origin, also where the mean direction vanishes.
C24_AlwaysFinite ==
    ProjCall =>
      \A r \in 1..Len(table.rows) :
        /\ isfinite(table.rows[r].x_proj)
        /\ isfinite(table.rows[r].y_proj)
        /\ source[r].z = 0 =>
             table.rows[r].x_proj = Fin(0) /\ table.rows[r].y_proj = Fin(0)

\* C24 restricted to test_wedge.py, whose function divides by nothing
C24_AlwaysFiniteInTest ==
    (ProjCall /\ call.script = "test_wedge") =>
      \A r \in 1..Len(table.rows) :
        /\ isfinite(table.rows[r].x_proj)
        /\ isfinite(table.rows[r].y_proj)
        /\ source[r].z = 0 =>
             table.rows[r].x_proj = Fin(0) /\ table.rows[r].y_proj = Fin(0)

FSSyntheticCall == call.op = "query_fastspecfit_data" /\ call.version = "new"

\* the states the generator can be in when a call starts
GeneratorStates ==
    {Entropy} \cup { [seeded |-> TRUE, seed |-> 42, advanced |-> a] : a \in BOOLEAN }

\* the samples of the stream that the generated values of a table are made of
SamplesOf(df) ==
    UNION { { df.rows[r][c].samples[i] : i \in 1..Len(df.rows[r][c].samples) } :
              r \in 1..Len(df.rows), c \in df.columns \ {"TARGETID"} }

\* C26: the synthetic query_fastspecfit_data is reproducible: every value of
\* its table is drawn from the stream of seed 42 counted from the start of the
\* call, so the table is the one the same arguments give from any other state
\* of the generator.
C26_Reproducible ==
    FSSyntheticCall =>
      /\ \A x \in SamplesOf(table) : x.state = np_random_seed(call.rng, 42)
      /\ \A state \in GeneratorStates :
           query_fastspecfit_seeded(state, call.targetids, call.emission_lines).table
             = table

\* a synthetic query of two galaxies made after an earlier call had reseeded
\* the generator and drawn from it
C26_Witness ==
    /\ FSSyntheticCall
    /\ call.rng.seeded
    /\ call.rng.advanced
    /\ Len(table.rows) = 2
    /\ "HALPHA_FLUX" \in table.columns

\* C27: the table query_galaxies returns is a selection of file rows without
\* repetition, subsampled or not: every returned row is a row that passed the
\* mask, and no row number of the file is taken twice.
C27_NoRepetition ==
    QGReturned =>
      /\ Len(parts[1].picked) = Len(table.rows)
      /\ \A r \in 1..Len(table.rows) :
           /\ parts[1].picked[r] \in Admitted
           /\ table.rows[r]["TARGETID"] = AsInt64(PickedRow(r)["TARGETID"])
      /\ \A i, j \in 1..Len(parts[1].picked) :
           i # j => parts[1].picked[i] # parts[1].picked[j]

\* two of three admitted rows are drawn, the later file row first
C27_Witness ==
    /\ QGReturned
    /\ Cardinality(Admitted) = 3
    /\ call.max_galaxies = 2
    /\ Len(table.rows) = 2
    /\ parts[1].picked[1] > parts[1].picked[2]

\* the pairs (galaxy row, emission row) with the same TARGETID
JoinPairs ==
    { p \in (1..Len(locals.galaxies.rows)) \X (1..Len(locals.emission_data.rows)) :
        locals.galaxies.rows[p[1]]["TARGETID"]
          = locals.emission_data.rows[p[2]]["TARGETID"] }

\* row r of the returned table is galaxy row g joined to emission row e
IsJoinOf(r, g, e) ==
    /\ \A c \in locals.galaxies.columns :
          table.rows[r][c] = locals.galaxies.rows[g][c]
    /\ \A c \in locals.emission_data.columns :
          table.rows[r][c] = locals.emission_data.rows[e][c]

\* C28: when the emission table lacks the flux or the inverse variance column
\* of the requested line, get_quality_sample raises nothing, cuts nothing and
\* returns the inner join of the galaxy rows and the emission rows on
\* TARGETID: one row for each pair of rows with equal TARGETID (none if the
\* emission table is empty).
C28_PlainJoinWithoutCut ==
    (GalaxiesKeyed /\ ~ CutColumns /\ locals.exit # "raised") =>
      /\ outcome = "returned"
      /\ error = "none"
      /\ Len(locals.emission_data.rows) >= 1 =>
            /\ locals.exit = "no flux columns"
            /\ table.columns = locals.galaxies.columns \cup locals.emission_data.columns
      /\ Len(table.rows) = Cardinality(JoinPairs)
      /\ \A r \in 1..Len(table.rows) : \E p \in JoinPairs : IsJoinOf(r, p[1], p[2])
      /\ \A p \in JoinPairs : \E r \in 1..Len(table.rows) : IsJoinOf(r, p[1], p[2])

\* C28 witness: the emission table has the flux of the line but not its inverse
\* variance, and an emission row with flux 0 is returned with its galaxy
C28_Witness ==
    /\ GalaxiesKeyed
    /\ flux_col(call.emission_line) \in locals.emission_data.columns
    /\ ivar_col(call.emission_line) \notin locals.emission_data.columns
    /\ outcome = "returned"
    /\ \E r \in 1..Len(table.rows) :
          ~ Positive(table.rows[r][flux_col(call.emission_line)])

\* the TARGETIDs of the galaxies whose own emission row passes the quality cut
IdsPassing ==
    { locals.galaxies.rows[k]["TARGETID"] : k \in AdmissibleEmissions }

\* C29: the synthetic query_fastspecfit_data returns one row for each element
\* of targetids, in the order of targetids and with that TARGETID; so in
\* get_quality_sample of the new loader emission row k belongs to galaxy k,
\* and the TARGETIDs of the joined table are those of the galaxies whose
\* emission row passes the cut (each of them once if no TARGETID repeats).
C29_OneRowPerTargetid ==
    /\ FSSyntheticCall =>
         /\ outcome = "returned"
         /\ IdsOf(table) = call.targetids
    /\ (GalaxiesKeyed /\ call.version = "new") =>
         /\ IdsOf(locals.emission_data) = IdsOf(locals.galaxies)
         /\ locals.exit = "merged" =>
              /\ { table.rows[r]["TARGETID"] : r \in 1..Len(table.rows) } = IdsPassing
              /\ NoRepeat(IdsOf(locals.galaxies)) =>
                   Len(table.rows) = Cardinality(AdmissibleEmissions)

\* C29 witness: two galaxies, the second before the first by TARGETID, the
\* emission row of one passes the cut and that galaxy alone is returned
C29_Witness ==
    /\ GalaxiesKeyed
    /\ call.version = "new"
    /\ locals.exit = "merged"
    /\ IdsOf(locals.galaxies) = <<2, 1>>
    /\ Cardinality(AdmissibleEmissions) = 1
    /\ Len(table.rows) = 1
    /\ table.rows[1]["TARGETID"] \in IdsPassing

\* what the loader of the given version returns for the arguments, the file and
\* the draw of the call in progress
SameCallOf(version) ==
    query_galaxies(version, call.max_galaxies, "ELG_LOPnotqso", "NGC", call.ra_range,
                   call.dec_range, call.z_range, source[1], call.draw)

\* C30: with z_range given as a pair (lo, hi), the two versions of
\* query_galaxies agree: for the same file, ra_range, dec_range, max_galaxies
\* and draw they end the same way and return the same rows with the same
\* values in the canonical columns.
C30_VersionsAgree ==
    (QGCall /\ call.z_range.given) =>
      \A version \in Versions :
        /\ SameCallOf(version).outcome = outcome
        /\ SameCallOf(version).error = error
        /\ SameCallOf(version).picked = parts[1].picked
        /\ SameCallOf(version).table = table

\* C30 witness: a redshift cut on Z_not4clus (the file has no Z column) that
\* drops a row, answered by the new loader
C30_Witness ==
    /\ QGReturned
    /\ call.version = "new"
    /\ call.z_range.given
    /\ z_filter_column("new", source[1].names, call.z_range) = "Z_not4clus"
    /\ Len(source[1].rows) = 2
    /\ Len(table.rows) = 1
    /\ Cardinality(Admitted) = 1

\* with z_range None the versions differ: on a file that has Z_not4clus and
\* no Z the old loader raises TypeError where the new one returns the rows
C30_DifferWithoutRange ==
    (QGCall /\ ~ call.z_range.given /\ source[1].status = "ok"
       /\ "Z" \notin source[1].names /\ "Z_not4clus" \in source[1].names) =>
      /\ SameCallOf("old").outcome = "raised"
      /\ SameCallOf("old").error = "TypeError"
      /\ SameCallOf("new").outcome # "raised" \/ SameCallOf("new").error = "ValueError"

====
